---- MODULE Spec2Model ----
(***************************************************************************)
(* Model of public/models/download_model.py: a script that loads the       *)
(* ultralytics library, acquires the YOLOv8n-Pose checkpoint, exports it   *)
(* to ONNX, checks that yolov8n-pose.onnx exists and prints its size, all  *)
(* inside one try block with the handlers `except ImportError` and         *)
(* `except Exception`.                                                     *)
(*                                                                         *)
(* pc is the source line about to run ("l7" = line 7, ...), "done" is the  *)
(* normal end of the script and "traceback" is an exception leaving it.    *)
(* The library calls (import, YOLO(...), model.export(...)) are external:  *)
(* each returns or raises an exception of some class with some text.       *)
(* The file yolov8n-pose.onnx lives in a file system that other processes  *)
(* can change between two statements of the script.                        *)
(* Writes to standard output are taken to succeed.                         *)
(***************************************************************************)
EXTENDS Integers, Sequences, FiniteSets

VARIABLES pc, out, raised, file, calls, returned, verify, envSteps

vars == <<pc, out, raised, file, calls, returned, verify, envSteps>>

(* ---------------------------------------------------------------- bounds *)

\* How many times another process changes the output file during one run.
MaxEnvSteps == 1

\* Byte counts the output file can have: empty, two exact rounding ties
\* (0.125 MiB and 0.375 MiB), a half-way value (5.5 MiB), and 6 MiB.
Sizes == {0, 131072, 393216, 5767168, 6291456}

\* Exception texts (str(e)) the library calls can raise with.
Messages == {"disk full", "No module named 'onnx'"}

\* Exception classes the library calls can raise: ImportError, an ordinary
\* Exception subclass, and a BaseException that is not an Exception.
LibraryRaises == {"ImportError", "RuntimeError", "KeyboardInterrupt"}

(* ------------------------------------------------- exception class tests *)

\* isinstance(e, ImportError)
IsImportError(cls) == cls \in {"ImportError", "ModuleNotFoundError"}

\* isinstance(e, Exception): KeyboardInterrupt and SystemExit derive from
\* BaseException only.
IsException(cls) == cls \notin {"KeyboardInterrupt", "SystemExit", "none"}

\* except ImportError: handled by the generic clause instead.
HandlerFor_NoImportClause(cls) ==
    IF IsException(cls) THEN "l27" ELSE "traceback"

\* except Exception: narrowed so that ordinary exceptions are not caught.
HandlerFor_NoGenericClause(cls) ==
    IF IsImportError(cls) THEN "l24" ELSE "traceback"

\* The except clauses of the try statement, first match wins; an exception
\* no clause matches leaves the script.
HandlerFor(cls) ==
    IF IsImportError(cls) THEN "l24"
    ELSE IF IsException(cls) THEN "l27"
    ELSE "traceback"

(* ------------------------------------------------------- printed lines *)

\* A printed line is the sequence of its text fragments.
CrossMark == "<cross mark> "
CheckMark == "<check mark> "

StartLine == <<"Downloading YOLOv8n-Pose model...">>
ExportingLine == <<"Exporting to ONNX format...">>
SuccessLine == <<CheckMark, "Success! Model exported to: yolov8n-pose.onnx">>
NotFoundLine == <<CrossMark, "Error: Model file not found after export">>
NotInstalledLine == <<CrossMark, "Error: ultralytics package not installed">>
HintLine == <<"   Install it with: pip install ultralytics">>
ErrorLine(msg) == <<CrossMark, "Error: ", msg>>

MiB == 1024 * 1024

Digit(d) == <<"0", "1", "2", "3", "4", "5", "6", "7", "8", "9">>[d + 1]

RECURSIVE ToDigits(_)
ToDigits(n) ==
    IF n < 10 THEN <<Digit(n)>>
    ELSE ToDigits(n \div 10) \o <<Digit(n % 10)>>

\* n / d rounded to the nearest integer, ties to the even one: the rounding
\* the 'f' presentation type applies to the exact value of the float.
RoundHalfEven(n, d) ==
    LET q == n \div d
        r == n % d
    IN  IF 2 * r < d THEN q
        ELSE IF 2 * r > d THEN q + 1
        ELSE IF q % 2 = 0 THEN q ELSE q + 1

\* f"{bytes / (1024*1024):.2f}": the quotient is exact in binary floating
\* point (division by a power of two), and is rendered with two decimals.
FormatMB(bytes) ==
    LET h == RoundHalfEven(bytes * 100, MiB)
    IN  ToDigits(h \div 100) \o <<".">> \o <<Digit((h % 100) \div 10), Digit(h % 10)>>

SizeLine(bytes) == <<"   File size: ">> \o FormatMB(bytes) \o <<" MB">>

(* ------------------------------------------------------------ the state *)

Steps == {"import", "acquire", "export", "exists", "getsize"}

NoException == [cls |-> "none", msg |-> "", at |-> "none"]

\* yolov8n-pose.onnx: writer is who wrote the current content ("pre": it
\* was there before the run, "export": this run's export call, "other":
\* another process during the run).
NoFile == [present |-> FALSE, size |-> 0, writer |-> "none"]
FileOf(s, w) == [present |-> TRUE, size |-> s, writer |-> w]

Terminal == {"done", "traceback"}

Init ==
    /\ pc = "l7"
    /\ out = <<>>
    /\ raised = NoException
    /\ file \in {NoFile} \cup {FileOf(s, "pre") : s \in Sizes}
    /\ calls = [s \in Steps |-> 0]
    /\ returned = {}
    /\ verify = [result |-> "unchecked", file |-> NoFile]
    /\ envSteps = 0

\* An exception of class cls with text msg raised by step: control goes to
\* the matching except clause.
Raise(step, cls, msg) ==
    /\ raised' = [cls |-> cls, msg |-> msg, at |-> step]
    /\ pc' = HandlerFor(cls)

Call(step) == calls' = [calls EXCEPT ![step] = @ + 1]

Return(step, next) ==
    /\ returned' = returned \cup {step}
    /\ pc' = next
    /\ UNCHANGED raised

PrintLine(line, next) ==
    /\ out' = Append(out, line)
    /\ pc' = next
    /\ UNCHANGED <<raised, file, calls, returned, verify, envSteps>>

(* ---------------------------------------------------------- the script *)

\* Lines 7-8: from ultralytics import YOLO; import os
Import ==
    /\ pc = "l7"
    /\ Call("import")
    /\ \/ Return("import", "l10")
       \/ \E c \in LibraryRaises, m \in Messages :
             Raise("import", c, m) /\ UNCHANGED returned
    /\ UNCHANGED <<out, file, verify, envSteps>>

\* Line 10
PrintStart == pc = "l10" /\ PrintLine(StartLine, "l11")

\* The exporting message is skipped.
AfterAcquire_SkipMessage == "l14"

\* The statement that follows the acquire call.
AfterAcquire == "l13"

\* Line 11: model = YOLO('yolov8n-pose.pt')
Acquire ==
    /\ pc = "l11"
    /\ Call("acquire")
    /\ \/ Return("acquire", AfterAcquire)
       \/ \E c \in LibraryRaises, m \in Messages :
             Raise("acquire", c, m) /\ UNCHANGED returned
    /\ UNCHANGED <<out, file, verify, envSteps>>

\* Line 13
PrintExporting == pc = "l13" /\ PrintLine(ExportingLine, "l14")

\* Line 14: model.export(format='onnx', imgsz=640, simplify=True).  The
\* library decides whether and where a file is written: the call may leave
\* yolov8n-pose.onnx of the working directory as it is or write it.
Export ==
    /\ pc = "l14"
    /\ Call("export")
    /\ \/ UNCHANGED file
       \/ \E s \in Sizes : file' = FileOf(s, "export")
    /\ \/ Return("export", "l17")
       \/ \E c \in LibraryRaises, m \in Messages :
             Raise("export", c, m) /\ UNCHANGED returned
    /\ UNCHANGED <<out, verify, envSteps>>

\* The else branch prints nothing.
VerifyBranch_SilentElse(present) == IF present THEN "l18" ELSE "done"

\* if os.path.exists(...): ... else: ...
VerifyBranch(present) == IF present THEN "l18" ELSE "l21"

\* Line 17: os.path.exists('yolov8n-pose.onnx') (never raises)
Exists ==
    /\ pc = "l17"
    /\ Call("exists")
    /\ verify' = [result |-> IF file.present THEN "present" ELSE "absent",
                  file |-> file]
    /\ Return("exists", VerifyBranch(file.present))
    /\ UNCHANGED <<out, file, envSteps>>

\* Line 18
PrintSuccess == pc = "l18" /\ PrintLine(SuccessLine, "l19")

\* Line 19: os.path.getsize(...) is evaluated, then the line is printed;
\* getsize raises OSError (FileNotFoundError) when the file is not there.
PrintSize ==
    /\ pc = "l19"
    /\ Call("getsize")
    /\ IF file.present
         THEN /\ out' = Append(out, SizeLine(file.size))
              /\ Return("getsize", "done")
         ELSE /\ Raise("getsize", "FileNotFoundError",
                       "[Errno 2] No such file or directory: 'yolov8n-pose.onnx'")
              /\ UNCHANGED <<out, returned>>
    /\ UNCHANGED <<file, verify, envSteps>>

\* Line 21
PrintNotFound == pc = "l21" /\ PrintLine(NotFoundLine, "done")

\* Lines 23-25: except ImportError
PrintNotInstalled == pc = "l24" /\ PrintLine(NotInstalledLine, "l25")
PrintHint == pc = "l25" /\ PrintLine(HintLine, "done")

\* Lines 26-27: except Exception as e
PrintError == pc = "l27" /\ PrintLine(ErrorLine(raised.msg), "done")

(* ------------------------------------------------------ the environment *)

\* Another process removes, creates or rewrites yolov8n-pose.onnx while the
\* script runs.
OtherProcess ==
    /\ pc \notin Terminal
    /\ envSteps < MaxEnvSteps
    /\ envSteps' = envSteps + 1
    /\ \/ file.present /\ file' = NoFile
       \/ \E s \in Sizes : file' = FileOf(s, "other")
    /\ UNCHANGED <<pc, out, raised, calls, returned, verify>>

\* The statements of the script.
Script ==
    \/ Import
    \/ PrintStart
    \/ Acquire
    \/ PrintExporting
    \/ Export
    \/ Exists
    \/ PrintSuccess
    \/ PrintSize
    \/ PrintNotFound
    \/ PrintNotInstalled
    \/ PrintHint
    \/ PrintError

Next == Script \/ OtherProcess

Spec == Init /\ [][Next]_vars

\* The interpreter runs the next statement, and each library call comes
\* back (by returning or by raising).
FairSpec == Spec /\ WF_vars(Script)

(* ------------------------------------------------------------- properties *)

Printed(line) == \E i \in 1..Len(out) : out[i] = line

IsSizeLine(line) == line[1] = "   File size: "

IsErrorLine(line) == Len(line) = 3 /\ line[2] = "Error: "

TypeOK ==
    /\ pc \in {"l7", "l10", "l11", "l13", "l14", "l17", "l18", "l19", "l21",
               "l24", "l25", "l27", "done", "traceback"}
    /\ raised.at \in Steps \cup {"none"}
    /\ file.present \in BOOLEAN
    /\ file.size \in Sizes
    /\ returned \subseteq Steps
    /\ verify.result \in {"unchecked", "present", "absent"}
    /\ envSteps \in 0..MaxEnvSteps

\* C1: when the import of the library raises ImportError, the output is
\* exactly the two missing-dependency lines (nothing before, nothing
\* after), neither the acquire nor the export call nor the file check is
\* made, and no exception leaves the script.
C1_MissingDependency ==
    (raised.at = "import" /\ IsImportError(raised.cls)) =>
        /\ pc # "traceback"
        /\ calls["acquire"] = 0 /\ calls["export"] = 0
        /\ calls["exists"] = 0 /\ calls["getsize"] = 0
        /\ out \in {<<>>, <<NotInstalledLine>>, <<NotInstalledLine, HintLine>>}
        /\ pc = "done" => out = <<NotInstalledLine, HintLine>>

C1_Witness ==
    /\ pc = "done"
    /\ raised.at = "import" /\ raised.cls = "ImportError"
    /\ out = <<NotInstalledLine, HintLine>>

\* C2: when the acquire or the export call raises an exception with text m
\* (stated here for the classes deriving from Exception), the run ends
\* normally having printed "Error: m" and neither the success line nor the
\* not-found line.
C2_GenericError ==
    (pc \in Terminal /\ raised.at \in {"acquire", "export"}
        /\ IsException(raised.cls)) =>
        /\ pc = "done"
        /\ Printed(ErrorLine(raised.msg))
        /\ ~Printed(SuccessLine)
        /\ ~Printed(NotFoundLine)

\* C3: when the export call returned and the file existed at the existence
\* check, the run ends having printed the success line directly followed by
\* the size line of the file's byte count / (1024*1024) with two decimals;
\* 6291456 bytes are printed as 6.00.
C3_SizeReported ==
    /\ FormatMB(6291456) = <<"6", ".", "0", "0">>
    /\ (pc \in Terminal /\ "export" \in returned /\ verify.result = "present") =>
          \E i \in 1..(Len(out) - 1) :
              /\ out[i] = SuccessLine
              /\ out[i + 1] \in {SizeLine(verify.file.size), SizeLine(file.size)}

\* C4: when the export call returned and the file did not exist at the
\* existence check, the not-found line is printed, no success line and no
\* size line is printed, and nothing is raised.
C4_NotFound ==
    verify.result = "absent" =>
        /\ "export" \in returned
        /\ pc \in {"l21", "done"}
        /\ raised = NoException
        /\ calls["getsize"] = 0
        /\ ~Printed(SuccessLine)
        /\ \A i \in 1..Len(out) : ~IsSizeLine(out[i])
        /\ pc = "done" => out = <<StartLine, ExportingLine, NotFoundLine>>

C4_Witness ==
    /\ pc = "done"
    /\ verify.result = "absent"
    /\ Printed(NotFoundLine)

\* C5 (as stated): whatever the steps return or raise, no exception leaves
\* the script.
C5_NoExceptionEscapes == pc # "traceback"

\* C5 (amended): every run reaches the normal end of the script, unless a
\* step raised an exception that does not derive from Exception.
C5_ExceptionsHandled ==
    <>(pc = "done" \/ (pc = "traceback" /\ ~IsException(raised.cls)))

C5_Witness ==
    /\ pc = "done"
    /\ raised.at = "export" /\ raised.cls = "RuntimeError"
    /\ Printed(ErrorLine(raised.msg))

\* C6: the missing-dependency pair is printed only when the import itself
\* failed; an exception raised by a later step is reported with the generic
\* "Error: <text>" line and never with the missing-dependency pair.
C6_ClassifiedByOrigin ==
    /\ (Printed(NotInstalledLine) \/ Printed(HintLine)) => raised.at = "import"
    /\ (pc = "done" /\ raised.at \in {"acquire", "export", "getsize"}) =>
          /\ Printed(ErrorLine(raised.msg))
          /\ ~Printed(NotInstalledLine)
          /\ ~Printed(HintLine)

C7_Order ==
    /\ \A s \in Steps : calls[s] <= 1
    /\ calls["acquire"] = 1 =>
          /\ "import" \in returned
          /\ Len(out) >= 1 /\ out[1] = StartLine
    /\ calls["export"] = 1 =>
          /\ "acquire" \in returned
          /\ Len(out) >= 2 /\ out[2] = ExportingLine
    /\ calls["exists"] = 1 => "export" \in returned
    /\ raised.at = "import" =>
          calls["acquire"] = 0 /\ calls["export"] = 0 /\ calls["exists"] = 0
    /\ raised.at = "acquire" => calls["export"] = 0 /\ calls["exists"] = 0
    /\ raised.at = "export" => calls["exists"] = 0

\* C7: each of the acquire call, the export call and the existence check is
\* made at most once, the acquire call only after the import returned and
\* the starting message was printed, the export call only after the acquire
\* call returned and the exporting message was printed, the check only
\* after the export call returned; once a step has raised, no step is
\* executed any more.
C7_Sequential ==
    /\ []C7_Order
    /\ [][raised # NoException => calls' = calls]_vars

C7_Witness ==
    /\ pc = "done"
    /\ calls["import"] = 1 /\ calls["acquire"] = 1
    /\ calls["export"] = 1 /\ calls["exists"] = 1

\* C8: whenever the success line is printed, the file seen by the existence
\* check was written by the export call of this run.
C8_CreatedByExport ==
    Printed(SuccessLine) => verify.file.writer = "export"

\* C9: whenever the success line is printed, the file is non-empty and its
\* size can be read.
C9_NonEmptyReadable ==
    Printed(SuccessLine) =>
        /\ verify.file.size > 0
        /\ raised.at # "getsize"

OutcomesPrinted ==
    {k \in {"success", "not-found", "missing-dependency", "error"} :
        \/ k = "success" /\ Printed(SuccessLine)
        \/ k = "not-found" /\ Printed(NotFoundLine)
        \/ k = "missing-dependency" /\ Printed(NotInstalledLine)
        \/ k = "error" /\ \E i \in 1..Len(out) : IsErrorLine(out[i])}

\* C10: a run that ends normally has printed exactly one of the outcomes
\* success, not-found, missing-dependency, generic error.
C10_OneOutcome ==
    pc = "done" => Cardinality(OutcomesPrinted) = 1

====
